---- MODULE Spec2Model ----
(***************************************************************************)
(* Circuits of halo2_demo, replayed the way MockProver::run + verify       *)
(* replays them: synthesize assigns cells region by region, enables        *)
(* selectors and declares copy constraints; verify evaluates every gate,   *)
(* lookup and copy constraint on the assigned grid.                        *)
(***************************************************************************)
EXTENDS Integers, Sequences, FiniteSets, TLC

VARIABLES circuit, witness, instance, run, pc, regions, assigns, selectors,
          copies, constants, tables, locals, failures, first, result, faults

vars == <<circuit, witness, instance, run, pc, regions, assigns, selectors,
          copies, constants, tables, locals, failures, first, result, faults>>

(***************************************************************************)
(* The scalar field.  P stands in for the 255-bit pasta modulus; products  *)
(* are reduced in two halves so that no intermediate leaves 32 bits.       *)
(***************************************************************************)
P == 1000003

Unknown == -1

FAdd(x, y) == (x + y) % P

FSub(x, y) == (x - y + P) % P

FMul(x, y) == (((x * (y \div 1024)) % P) * 1024 + x * (y % 1024)) % P

FromU64(i) == i % P

VMul_known(x, y) == IF x = Unknown \/ y = Unknown THEN 0 ELSE FMul(x, y)

\* Value<F> arithmetic: an unknown operand gives an unknown result.
VMul(x, y) == IF x = Unknown \/ y = Unknown THEN Unknown ELSE FMul(x, y)

VAdd(x, y) == IF x = Unknown \/ y = Unknown THEN Unknown ELSE FAdd(x, y)

(***************************************************************************)
(* Bounds of the explored inputs.                                          *)
(***************************************************************************)
MaxIn == 3

InVals == (0..MaxIn) \cup {P - 1}

(***************************************************************************)
(* The layouter's record of one synthesis.  A cell is <<region, column,    *)
(* offset>>; region 0 holds the instance column, addressed by absolute     *)
(* row.  assigns is the log of cell assignments in call order.             *)
(***************************************************************************)
InstanceCell(row) == <<0, "instance", row>>

Assign(log, cell, v) == Append(log, [cell |-> cell, val |-> v])

IsAssigned(log, cell) == \E i \in 1..Len(log) : log[i].cell = cell

\* The value the grid holds in a cell: the last one written, 0 if none was.
CellVal(log, cell) ==
    LET idx == {i \in 1..Len(log) : log[i].cell = cell}
    IN  IF idx = {} THEN 0
        ELSE log[CHOOSE i \in idx : \A j \in idx : j <= i].val

InstanceVal(row) == IF row < Len(instance) THEN instance[row + 1] ELSE 0

ValOf(cell) ==
    IF cell[2] = "instance" THEN InstanceVal(cell[3]) ELSE CellVal(assigns, cell)

Number(cell, v) == [cell |-> cell, value |-> v]

\* one entry of verify's report
Failure(kind, name, region, row) ==
    [kind |-> kind, name |-> name, region |-> region, row |-> row]

(***************************************************************************)
(* The engine behind the layouter.  Runs 1 and 2 are MockProver::run; run  *)
(* 3 is the synthesis of key generation on without_witnesses(), where the  *)
(* engine records the shape and never evaluates a value closure; run 4 is  *)
(* MockProver::run on a witness that holds unknown values.  A region       *)
(* closure is the sequence of its layouter calls.                          *)
(***************************************************************************)
Shape == run = 3

\* the value of the AssignedCell that assign_advice / copy_advice returns
Handle(v) == IF Shape THEN Unknown ELSE v

\* MockProver::assign_advice returns Err(Error::Synthesis) on an unknown value
Rejected(v) == ~Shape /\ v = Unknown

Enable(sel, r, off) ==
    [op |-> "enable", sel |-> sel, cell |-> <<r, sel, off>>, val |-> 0,
     from |-> <<>>]

AssignAdvice(cell, v) ==
    [op |-> "assign", sel |-> "", cell |-> cell, val |-> v, from |-> <<>>]

AssignFromConstant(cell, v) ==
    [op |-> "constant", sel |-> "", cell |-> cell, val |-> v, from |-> <<>>]

CopyAdvice(from, cell, v) ==
    [op |-> "copy", sel |-> "", cell |-> cell, val |-> v, from |-> from]

Fails(step) == step.op \in {"assign", "copy"} /\ Rejected(step.val)

FirstFailing(steps) ==
    LET bad == {i \in 1..Len(steps) : Fails(steps[i])}
    IN  IF bad = {} THEN Len(steps) + 1
        ELSE CHOOSE i \in bad : \A j \in bad : i <= j

\* the calls that run when every call is followed by `?`
Ran(steps) == SubSeq(steps, 1, FirstFailing(steps) - 1)

Completes(steps) == FirstFailing(steps) > Len(steps)

IsWrite(step) == step.op # "enable"

LogOf(steps) ==
    LET w == SelectSeq(steps, IsWrite)
    IN  [i \in 1..Len(w) |-> [cell |-> w[i].cell, val |-> w[i].val]]

SelectorsOf(steps) ==
    {[sel |-> steps[i].sel, region |-> steps[i].cell[1], off |-> steps[i].cell[3]] :
        i \in {j \in 1..Len(steps) : steps[j].op = "enable"}}

CopiesOf(steps) ==
    {<<steps[i].from, steps[i].cell>> :
        i \in {j \in 1..Len(steps) : steps[j].op = "copy"}}

ConstantsOf(steps) ==
    {[cell |-> steps[i].cell, value |-> steps[i].val] :
        i \in {j \in 1..Len(steps) : steps[j].op = "constant"}}

\* one engine call that returned Err
Fault(call, name, index) == [call |-> call, name |-> name, index |-> index]

\* Result::unwrap
Unwrap(res) == IF res = "Err" THEN "panic" ELSE res

\* MockProver::run is followed by verify; key generation is not
AfterSynthesis == IF run \in {1, 2} THEN "verify" ELSE "returned"

NoWitness ==
    [constant |-> 0, a |-> 0, b |-> 0, value |-> <<>>, values |-> <<>>,
     bits |-> <<>>, a_values |-> <<>>, b_values |-> <<>>]

NewAssigns_carried == assigns

\* A prover starts from an empty grid.
NewAssigns == <<>>

NewSelectors == {}

NewCopies == {}

NoRun ==
    [done |-> FALSE, regions |-> <<>>, assigns |-> <<>>, selectors |-> {},
     copies |-> {}, constants |-> {}, tables |-> <<>>, instance |-> <<>>,
     failures |-> {}]

(***************************************************************************)
(* SimpleChip (examples/simple_chip.rs)                                    *)
(***************************************************************************)
\* the test's off-circuit value: e = c*a^2*b^2 + c, out = e^3
SimpleOut(a, b, c) ==
    LET e == FAdd(FMul(FMul(c, FMul(a, a)), FMul(b, b)), c)
    IN  FMul(FMul(e, e), e)

MulGate(lhs, rhs, out) == FSub(FMul(lhs, rhs), out)

AddGate(lhs, rhs, out) == FSub(FAdd(lhs, rhs), out)

CubGate(lhs, out) == FSub(FMul(FMul(lhs, lhs), lhs), out)

SimpleInputs ==
    {[NoWitness EXCEPT !.a = x, !.b = y, !.constant = c] :
        x \in InVals, y \in InVals, c \in InVals}

\* the public inputs tried against a circuit whose driver expects out
PublicAround(out) == {<<out>>, <<FAdd(out, 1)>>, <<FSub(out, 1)>>, <<0>>}

SimplePublic(w) == PublicAround(SimpleOut(w.a, w.b, w.constant))

\* the calls of region "load private inputs"
LoadPrivateInputs(r, a, b, c) ==
    <<AssignAdvice(<<r, "advice0", 0>>, a),
      AssignAdvice(<<r, "advice0", 1>>, b),
      AssignFromConstant(<<r, "advice0", 2>>, c)>>

\* region "load private inputs"; its result is unwrapped
SimpleChip_load_private_inputs ==
    /\ circuit = "SimpleChipCiruit"
    /\ pc = "load private inputs"
    /\ LET r == Len(regions) + 1
           steps == LoadPrivateInputs(r, witness.a, witness.b, witness.constant)
       IN  /\ regions' = Append(regions, "load private inputs")
           /\ assigns' = assigns \o LogOf(Ran(steps))
           /\ constants' = constants \cup ConstantsOf(Ran(steps))
           /\ IF Completes(steps)
              THEN /\ locals' = ("a" :> Number(steps[1].cell, Handle(witness.a)))
                                @@ ("b" :> Number(steps[2].cell, Handle(witness.b)))
                                @@ ("c" :> Number(steps[3].cell, witness.constant))
                   /\ pc' = "load witness"
                   /\ UNCHANGED <<result, faults>>
              ELSE /\ faults' = faults \cup
                        {Fault("assign_region", "load private inputs", r)}
                   /\ result' = Unwrap("Err")
                   /\ pc' = "returned"
                   /\ UNCHANGED locals
    /\ UNCHANGED <<circuit, witness, instance, run, selectors, copies, tables,
                   failures, first>>

SimpleWitnessRows_bad(a, b, c) ==
    LET ab   == VMul(a, b)
        absq == VMul(ab, ab)
        d    == VAdd(absq, c)
        e    == VAdd(d, c)
        out  == VMul(VMul(e, e), e)
    IN  [ab |-> ab, absq |-> absq, d |-> d, e |-> e, out |-> out]

\* the values "load witness" computes, row by row
SimpleWitnessRows(a, b, c) ==
    LET ab   == VMul(a, b)
        absq == VMul(ab, ab)
        d    == VMul(absq, c)
        e    == VAdd(d, c)
        out  == VMul(VMul(e, e), e)
    IN  [ab |-> ab, absq |-> absq, d |-> d, e |-> e, out |-> out]

\* the blocks of region "load witness", in the order of the code
LoadAB(r, a, b) ==
    <<Enable("s_mul", r, 0),
      CopyAdvice(a.cell, <<r, "advice0", 0>>, a.value),
      CopyAdvice(b.cell, <<r, "advice1", 0>>, b.value)>>

FillAb_uncopied(r, v) ==
    <<Enable("s_mul", r, 1),
      AssignAdvice(<<r, "advice0", 1>>, v.ab),
      AssignAdvice(<<r, "advice1", 1>>, Handle(v.ab))>>

FillAb(r, v) ==
    <<Enable("s_mul", r, 1),
      AssignAdvice(<<r, "advice0", 1>>, v.ab),
      CopyAdvice(<<r, "advice0", 1>>, <<r, "advice1", 1>>, Handle(v.ab))>>

FillAbsq(r, c, v) ==
    <<Enable("s_mul", r, 2),
      AssignAdvice(<<r, "advice0", 2>>, v.absq),
      CopyAdvice(c.cell, <<r, "advice1", 2>>, c.value)>>

FillD(r, c, v) ==
    <<Enable("s_add", r, 3),
      AssignAdvice(<<r, "advice0", 3>>, v.d),
      CopyAdvice(<<r, "advice1", 2>>, <<r, "advice1", 3>>, Handle(c.value))>>

FillE(r, v) == <<AssignAdvice(<<r, "advice0", 4>>, v.e)>>

FillOut_early(r, v) ==
    <<Enable("s_cub", r, 3), AssignAdvice(<<r, "advice1", 4>>, v.out)>>

FillOut(r, v) ==
    <<Enable("s_cub", r, 4), AssignAdvice(<<r, "advice1", 4>>, v.out)>>

LoadWitness(r, a, b, c) ==
    LET v == SimpleWitnessRows(Handle(a.value), Handle(b.value), Handle(c.value))
    IN  LoadAB(r, a, b) \o FillAb(r, v) \o FillAbsq(r, c, v) \o FillD(r, c, v)
        \o FillE(r, v) \o FillOut(r, v)

\* region "load witness"; its result is assign's result
SimpleChip_load_witness ==
    /\ circuit = "SimpleChipCiruit"
    /\ pc = "load witness"
    /\ LET r == Len(regions) + 1
           steps == LoadWitness(r, locals["a"], locals["b"], locals["c"])
           out == steps[Len(steps)]
       IN  /\ regions' = Append(regions, "load witness")
           /\ selectors' = selectors \cup SelectorsOf(Ran(steps))
           /\ assigns' = assigns \o LogOf(Ran(steps))
           /\ copies' = copies \cup CopiesOf(Ran(steps))
           /\ IF Completes(steps)
              THEN /\ locals' = ("out" :> Number(out.cell, Handle(out.val))) @@ locals
                   /\ pc' = "expose_public"
                   /\ UNCHANGED <<result, faults>>
              ELSE /\ faults' = faults \cup {Fault("assign_region", "load witness", r)}
                   /\ result' = "Err"
                   /\ pc' = "returned"
                   /\ UNCHANGED locals
    /\ UNCHANGED <<circuit, witness, instance, run, constants, tables,
                   failures, first>>

ExposeCopies_none(cell, row) == {}

\* constrain_instance(cell, instance, row)
ExposeCopies(cell, row) == {<<cell, InstanceCell(row)>>}

SimpleChip_expose_public ==
    /\ circuit = "SimpleChipCiruit"
    /\ pc = "expose_public"
    /\ copies' = copies \cup ExposeCopies(locals["out"].cell, 0)
    /\ pc' = AfterSynthesis
    /\ result' = "Ok"
    /\ UNCHANGED <<circuit, witness, instance, run, regions, assigns,
                   selectors, constants, tables, locals, failures, first,
                   faults>>

(***************************************************************************)
(* FieldChip and MyCiruit (main.rs)                                        *)
(***************************************************************************)
\* main's public input: c = a * b + constant
MainC(a, b, constant) == FAdd(FMul(a, b), constant)

FieldMulGate(lhs, rhs, out) == FSub(FMul(lhs, rhs), out)

FieldInputs ==
    {[NoWitness EXCEPT !.a = x, !.b = y, !.constant = c] :
        x \in InVals, y \in InVals, c \in InVals}
    \cup {[NoWitness EXCEPT !.a = 3, !.b = 5, !.constant = 7]}

\* synthesize's comment: ab = a*b, absq = ab^2, c = constant*absq
CommentC(a, b, constant) == FMul(constant, FMul(FMul(a, b), FMul(a, b)))

FieldPublic(w) ==
    PublicAround(MainC(w.a, w.b, w.constant))
    \cup PublicAround(CommentC(w.a, w.b, w.constant))

FieldChip_load_private ==
    /\ circuit = "MyCiruit"
    /\ pc \in {"load a", "load b"}
    /\ LET r     == Len(regions) + 1
           v     == IF pc = "load a" THEN witness.a ELSE witness.b
           name  == IF pc = "load a" THEN "a" ELSE "b"
           steps == <<AssignAdvice(<<r, "advice0", 0>>, v)>>
       IN  /\ regions' = Append(regions, "load private")
           /\ assigns' = assigns \o LogOf(Ran(steps))
           /\ IF Completes(steps)
              THEN /\ locals' = (name :> Number(steps[1].cell, Handle(v))) @@ locals
                   /\ pc' = IF pc = "load a" THEN "load b" ELSE "load constant"
                   /\ UNCHANGED <<result, faults>>
              ELSE /\ faults' = faults \cup {Fault("assign_region", "load private", r)}
                   /\ result' = "Err"
                   /\ pc' = "returned"
                   /\ UNCHANGED locals
    /\ UNCHANGED <<circuit, witness, instance, run, selectors, copies,
                   constants, tables, failures, first>>

FieldChip_load_constant ==
    /\ circuit = "MyCiruit"
    /\ pc = "load constant"
    /\ LET r     == Len(regions) + 1
           steps == <<AssignFromConstant(<<r, "advice0", 0>>, witness.constant)>>
       IN  /\ regions' = Append(regions, "load constant")
           /\ assigns' = assigns \o LogOf(steps)
           /\ constants' = constants \cup ConstantsOf(steps)
           /\ locals' = ("constant" :> Number(steps[1].cell, witness.constant))
                        @@ locals
    /\ pc' = "ab"
    /\ UNCHANGED <<circuit, witness, instance, run, selectors, copies, tables,
                   failures, first, result, faults>>

MulCall_single(step) ==
    CASE step = "ab"    -> <<"a", "b", "ab", "ab_sq">>
      [] step = "ab_sq" -> <<"ab", "b", "ab_sq", "c">>
      [] step = "c"     -> <<"constant", "ab_sq", "c", "expose c">>

\* synthesize's three calls of mul: <<lhs, rhs, result, next step>>
MulCall(step) ==
    CASE step = "ab"    -> <<"a", "b", "ab", "ab_sq">>
      [] step = "ab_sq" -> <<"ab", "ab", "ab_sq", "c">>
      [] step = "c"     -> <<"constant", "ab_sq", "c", "expose c">>

MulRegion_same_row(r, a, b) ==
    <<Enable("s_mul", r, 0),
      CopyAdvice(a.cell, <<r, "advice0", 0>>, a.value),
      CopyAdvice(b.cell, <<r, "advice1", 0>>, b.value),
      AssignAdvice(<<r, "advice0", 0>>, VMul(a.value, b.value))>>

\* the calls of region "mul"
MulRegion(r, a, b) ==
    <<Enable("s_mul", r, 0),
      CopyAdvice(a.cell, <<r, "advice0", 0>>, a.value),
      CopyAdvice(b.cell, <<r, "advice1", 0>>, b.value),
      AssignAdvice(<<r, "advice0", 1>>, VMul(a.value, b.value))>>

FieldChip_mul ==
    /\ circuit = "MyCiruit"
    /\ pc \in {"ab", "ab_sq", "c"}
    /\ LET call  == MulCall(pc)
           r     == Len(regions) + 1
           steps == MulRegion(r, locals[call[1]], locals[call[2]])
           out   == steps[Len(steps)]
       IN  /\ regions' = Append(regions, "mul")
           /\ selectors' = selectors \cup SelectorsOf(Ran(steps))
           /\ assigns' = assigns \o LogOf(Ran(steps))
           /\ copies' = copies \cup CopiesOf(Ran(steps))
           /\ IF Completes(steps)
              THEN /\ locals' = (call[3] :> Number(out.cell, Handle(out.val))) @@ locals
                   /\ pc' = call[4]
                   /\ UNCHANGED <<result, faults>>
              ELSE /\ faults' = faults \cup {Fault("assign_region", "mul", r)}
                   /\ result' = "Err"
                   /\ pc' = "returned"
                   /\ UNCHANGED locals
    /\ UNCHANGED <<circuit, witness, instance, run, constants, tables,
                   failures, first>>

FieldExposeCopies(cell, row) == {<<cell, InstanceCell(row)>>}

FieldChip_expose_public ==
    /\ circuit = "MyCiruit"
    /\ pc = "expose c"
    /\ copies' = copies \cup FieldExposeCopies(locals["c"].cell, 0)
    /\ pc' = AfterSynthesis
    /\ result' = "Ok"
    /\ UNCHANGED <<circuit, witness, instance, run, regions, assigns,
                   selectors, constants, tables, locals, failures, first,
                   faults>>

(***************************************************************************)
(* HashChip and HashCircuit (circuits/hash.rs)                             *)
(***************************************************************************)
HashGate(lhs, rhs, out) == FSub(FMul(lhs, rhs), out)

\* the test's public input: a * b
HashProduct(a, b) == FMul(a, b)

HashInputs ==
    {[NoWitness EXCEPT !.a = x, !.b = y] : x \in InVals, y \in InVals}
    \cup {[NoWitness EXCEPT !.a = 11, !.b = 6]}

HashPublic(w) == PublicAround(HashProduct(w.a, w.b))

\* region "private inputs"
HashCircuit_private_inputs ==
    /\ circuit = "HashCircuit"
    /\ pc = "private inputs"
    /\ LET r     == Len(regions) + 1
           steps == <<AssignAdvice(<<r, "advice0", 0>>, witness.a),
                      AssignAdvice(<<r, "advice1", 0>>, witness.b)>>
       IN  /\ regions' = Append(regions, "private inputs")
           /\ assigns' = assigns \o LogOf(steps)
           /\ locals' = ("left" :> Number(steps[1].cell, Handle(witness.a)))
                        @@ ("right" :> Number(steps[2].cell, Handle(witness.b)))
    /\ pc' = "hasher"
    /\ UNCHANGED <<circuit, witness, instance, run, selectors, copies,
                   constants, tables, failures, first, result, faults>>

\* chip.hash(left, right): one region, one row
HashChip_hash ==
    /\ circuit = "HashCircuit"
    /\ pc = "hasher"
    /\ LET r     == Len(regions) + 1
           left  == locals["left"]
           right == locals["right"]
           steps == <<Enable("s_hash", r, 0),
                      CopyAdvice(left.cell, <<r, "advice0", 0>>, left.value),
                      CopyAdvice(right.cell, <<r, "advice1", 0>>, right.value),
                      AssignAdvice(<<r, "advice2", 0>>,
                                   VMul(left.value, right.value))>>
           out   == steps[Len(steps)]
       IN  /\ regions' = Append(regions, "hash")
           /\ selectors' = selectors \cup SelectorsOf(steps)
           /\ assigns' = assigns \o LogOf(steps)
           /\ copies' = copies \cup CopiesOf(steps)
           /\ locals' = ("hash_result_cell" :> Number(out.cell, Handle(out.val)))
                        @@ locals
    /\ pc' = "constrain_instance"
    /\ UNCHANGED <<circuit, witness, instance, run, constants, tables,
                   failures, first, result, faults>>

HashInstanceCopies_none(cell) == {}

\* constrain_instance(hash_result_cell, instance, 0)
HashInstanceCopies(cell) == {<<cell, InstanceCell(0)>>}

HashCircuit_constrain_instance ==
    /\ circuit = "HashCircuit"
    /\ pc = "constrain_instance"
    /\ copies' = copies \cup HashInstanceCopies(locals["hash_result_cell"].cell)
    /\ pc' = AfterSynthesis
    /\ result' = "Ok"
    /\ UNCHANGED <<circuit, witness, instance, run, regions, assigns,
                   selectors, constants, tables, locals, failures, first,
                   faults>>

(***************************************************************************)
(* Lookup tables and the three range circuits (examples/table.rs,          *)
(* range_lookup.rs, range_lookup_2.rs, range_lookup3.rs)                   *)
(***************************************************************************)
K == 5

Rows == 0 .. (2^K - 1)

TableCell(col, off, v) == [col |-> col, off |-> off, val |-> v]

TableOffsets(tab) == {tab[i].off : i \in 1..Len(tab)}

\* a fixed table column reads 0 where nothing was assigned
TableVal(tab, col, off) ==
    LET idx == {i \in 1..Len(tab) : tab[i].col = col /\ tab[i].off = off}
    IN  IF idx = {} THEN 0
        ELSE tab[CHOOSE i \in idx : \A j \in idx : j <= i].val

\* the rows of a table: the assigned offsets, the rest repeats the first row
TableRows(tab) == IF TableOffsets(tab) = {} THEN {0} ELSE TableOffsets(tab)

Selected(sel, r, off) ==
    IF [sel |-> sel, region |-> r, off |-> off] \in selectors THEN 1 ELSE 0

RECURSIVE SeqsUpTo(_, _)
SeqsUpTo(S, n) ==
    IF n = 0 THEN {<<>>}
    ELSE SeqsUpTo(S, n - 1) \cup [1..n -> S]

\* ---- range_lookup.rs: MyCircuit<F, RANGE, NUM> ----
RANGE == 16

NUM == 3

RangeSample == {0, RANGE - 1, RANGE, RANGE + 2, P - 1}

\* lookup_example's two witnesses, and every array over the sample
RangeInputs ==
    {[NoWitness EXCEPT !.value = v] : v \in [1..NUM -> RangeSample]}
    \cup {[NoWitness EXCEPT !.value = [i \in 1..NUM |-> FromU64(i - 1)]],
          [NoWitness EXCEPT !.value = [[i \in 1..NUM |-> FromU64(i - 1)]
                                          EXCEPT ![2] = 18]]}

\* LookupTable::load
LookupTable_load ==
    /\ circuit = "MyCircuit"
    /\ pc = "lookup col"
    /\ tables' = tables \o [i \in 1..RANGE |-> TableCell("table", i - 1, FromU64(i - 1))]
    /\ pc' = "range check"
    /\ UNCHANGED <<circuit, witness, instance, run, regions, assigns,
                   selectors, copies, constants, locals, failures, first,
                   result, faults>>

\* the rows RangeConfig::assign enables q_lookup on: 0, then 1..NUM-1
RangeEnabledRows_first == {0}

RangeEnabledRows == {0} \cup (1 .. (NUM - 1))

\* RangeConfig::assign, region "value to check": the result of each
\* assign_advice is stored in cell, and the last one is returned
RangeConfig_assign ==
    /\ circuit = "MyCircuit"
    /\ pc = "range check"
    /\ LET r       == Len(regions) + 1
           steps   == [i \in 1..NUM |->
                         AssignAdvice(<<r, "value", i - 1>>, witness.value[i])]
           results == [i \in 1..NUM |-> IF Fails(steps[i]) THEN "Err" ELSE "Ok"]
           Passes(step) == ~Fails(step)
           cell    == results[NUM]
       IN  /\ regions' = Append(regions, "value to check")
           /\ selectors' = selectors \cup
                 {[sel |-> "q_lookup", region |-> r, off |-> i] : i \in RangeEnabledRows}
           /\ assigns' = assigns \o LogOf(SelectSeq(steps, Passes))
           /\ faults' = faults \cup
                 {Fault("assign_advice", "value", i - 1) :
                     i \in {j \in 1..NUM : results[j] = "Err"}}
           /\ result' = cell
           /\ IF cell = "Ok"
              THEN /\ locals' = ("cell" :> Number(steps[NUM].cell,
                                                  Handle(steps[NUM].val)))
                                @@ locals
                   /\ pc' = AfterSynthesis
              ELSE /\ pc' = "returned"
                   /\ UNCHANGED locals
    /\ UNCHANGED <<circuit, witness, instance, run, copies, constants, tables,
                   failures, first>>

\* the lookup of RangeConfig::configure: q_lookup * v in table
RangeInput(q_lookup, v) == FMul(q_lookup, v)

RangeLookupFailures ==
    {Failure("lookup", "value", 1, row) :
        row \in {x \in Rows :
            RangeInput(Selected("q_lookup", 1, x), CellVal(assigns, <<1, "value", x>>))
              \notin {TableVal(tables, "table", o) : o \in TableRows(tables)}}}

\* ---- range_lookup_2.rs: RangeCheckCircuit<F, NUM_BITS, RANGE> ----
NUM_BITS == 4

\* <<value, num_bit>> for num_bit in 1..=n, value in 2^(num_bit-1)..2^num_bit
RECURSIVE TaggedPairs(_)
TaggedPairs(n) ==
    IF n = 0 THEN <<>>
    ELSE TaggedPairs(n - 1)
         \o [i \in 1..(2^(n - 1)) |-> <<2^(n - 1) + i - 1, n>>]

\* tests::circuit()
TestValues == [i \in 1..Len(TaggedPairs(NUM_BITS)) |-> FromU64(TaggedPairs(NUM_BITS)[i][1])]

TestBits == [i \in 1..Len(TaggedPairs(NUM_BITS)) |-> TaggedPairs(NUM_BITS)[i][2]]

TamperVals == {0, 3, 2^NUM_BITS - 1, 2^NUM_BITS, P - 1}

TamperTags == 0 .. (NUM_BITS + 1)

RangeCheckInputs ==
    {[NoWitness EXCEPT !.values = TestValues, !.bits = TestBits]}
    \cup {[NoWitness EXCEPT !.values = [TestValues EXCEPT ![i] = v],
                            !.bits = [TestBits EXCEPT ![i] = t]] :
            i \in 1..Len(TestValues), v \in TamperVals, t \in TamperTags}

\* RangeCheckTable::load: row (1, 0), then every tagged pair
RangeCheckTable_load ==
    /\ circuit = "RangeCheckCircuit"
    /\ pc = "table"
    /\ LET rows == <<<<0, 1>>>> \o TaggedPairs(NUM_BITS)
       IN  tables' = tables
              \o [i \in 1..(2 * Len(rows)) |->
                    IF i % 2 = 1
                    THEN TableCell("n_bits", (i - 1) \div 2, FromU64(rows[(i + 1) \div 2][2]))
                    ELSE TableCell("value", (i - 1) \div 2, FromU64(rows[i \div 2][1]))]
    /\ pc' = "value"
    /\ UNCHANGED <<circuit, witness, instance, run, regions, assigns,
                   selectors, copies, constants, locals, failures, first,
                   result, faults>>

RangeCheckRows_every_value == 0 .. (Len(witness.values) - 1)

\* the rows RangeCheckConfig::assign places: for i in 0..NUM_BITS
RangeCheckRows == 0 .. (NUM_BITS - 1)

\* a value closure that is never evaluated stands for an unknown value
ValueAt(seq, i) == IF i <= Len(seq) THEN seq[i] ELSE Unknown

\* RangeCheckConfig::assign, region "bit && vlaue region"
RangeCheckConfig_assign ==
    /\ circuit = "RangeCheckCircuit"
    /\ pc = "value"
    /\ Shape \/ (Len(witness.values) >= NUM_BITS /\ Len(witness.bits) >= NUM_BITS)
    /\ LET r == Len(regions) + 1
           bit(i) == IF i <= Len(witness.bits) THEN FromU64(witness.bits[i])
                     ELSE Unknown
       IN  /\ regions' = Append(regions, "bit && vlaue region")
           /\ selectors' = selectors \cup
                 {[sel |-> "q_lookup", region |-> r, off |-> i] : i \in RangeCheckRows}
           /\ assigns' = assigns \o
                 [j \in 1..(2 * Cardinality(RangeCheckRows)) |->
                    IF j % 2 = 1
                    THEN [cell |-> <<r, "value", (j - 1) \div 2>>,
                          val |-> ValueAt(witness.values, (j + 1) \div 2)]
                    ELSE [cell |-> <<r, "bit", (j - 1) \div 2>>,
                          val |-> bit(j \div 2)]]
    /\ pc' = AfterSynthesis
    /\ result' = "Ok"
    /\ UNCHANGED <<circuit, witness, instance, run, copies, constants, tables,
                   locals, failures, first, faults>>

RangeCheckQuery_swapped(q_lookup, value, bit) ==
    LET non_q == FSub(1, q_lookup)
        v == FAdd(FMul(value, q_lookup), FMul(non_q, 0))
        b == FAdd(FMul(bit, q_lookup), FMul(non_q, 1))
    IN  <<v, b>>

RangeCheckQuery_zero_default(q_lookup, value, bit) ==
    LET non_q == FSub(1, q_lookup)
        v == FAdd(FMul(value, q_lookup), FMul(non_q, 0))
        b == FAdd(FMul(bit, q_lookup), FMul(non_q, 0))
    IN  <<b, v>>

\* the lookup of RangeCheckConfig::configure: <<b, v>> in (n_bits, value)
RangeCheckQuery(q_lookup, value, bit) ==
    LET default_value == 0
        default_bit   == 1
        non_q == FSub(1, q_lookup)
        v == FAdd(FMul(value, q_lookup), FMul(non_q, default_value))
        b == FAdd(FMul(bit, q_lookup), FMul(non_q, default_bit))
    IN  <<b, v>>

RangeCheckTuples ==
    {<<TableVal(tables, "n_bits", o), TableVal(tables, "value", o)>> :
        o \in TableRows(tables)}

RangeCheckRowQuery(row) ==
    RangeCheckQuery(Selected("q_lookup", 1, row),
                    CellVal(assigns, <<1, "value", row>>),
                    CellVal(assigns, <<1, "bit", row>>))

RangeCheckFailures ==
    {Failure("lookup", "value", 1, row) :
        row \in {x \in Rows : RangeCheckRowQuery(x) \notin RangeCheckTuples}}

\* ---- range_lookup3.rs: RangeLookupCircuit ----
MaxLen == 2

LookupVals == {0, 1, 10}

RangeLookupInputs ==
    {[NoWitness EXCEPT !.a_values = a, !.b_values = b] :
        a \in SeqsUpTo(LookupVals, MaxLen), b \in SeqsUpTo(LookupVals, MaxLen + 1)}
    \cup {[NoWitness EXCEPT !.a_values = <<0, 1, 2, 3, 4>>,
                            !.b_values = <<0, 0, 1, 2, 3, 4, 5, 6, 7, 8, 9>>]}

\* the calls of RangeLookupChip::assign's region closure
RangeLookupRegion(r, a_values, b_values) ==
    [j \in 1..(2 * Len(a_values)) |->
        IF j % 2 = 1 THEN Enable("q_lookup", r, (j - 1) \div 2)
        ELSE AssignAdvice(<<r, "advice_a", (j - 1) \div 2>>, a_values[j \div 2])]
    \o [i \in 1..Len(b_values) |->
          AssignAdvice(<<r, "advice_b", i - 1>>, b_values[i])]

\* RangeLookupChip::assign, the region: its result goes to `let _`
RangeLookupChip_assign_region ==
    /\ circuit = "RangeLookupCircuit"
    /\ pc = "assign region"
    /\ LET r     == Len(regions) + 1
           steps == RangeLookupRegion(r, witness.a_values, witness.b_values)
       IN  /\ regions' = Append(regions, "")
           /\ selectors' = selectors \cup SelectorsOf(Ran(steps))
           /\ assigns' = assigns \o LogOf(Ran(steps))
           /\ faults' = IF Completes(steps) THEN faults
                        ELSE faults \cup {Fault("assign_region", "", r)}
    /\ pc' = "assign table"
    /\ UNCHANGED <<circuit, witness, instance, run, copies, constants, tables,
                   locals, failures, first, result>>

\* RangeLookupChip::assign, the table "lookup table": for i in 0..10
RangeLookupChip_assign_table ==
    /\ circuit = "RangeLookupCircuit"
    /\ pc = "assign table"
    /\ tables' = tables
          \o [j \in 1..20 |->
                IF j % 2 = 1
                THEN TableCell("table_1", (j - 1) \div 2, FromU64((j - 1) \div 2))
                ELSE TableCell("table_2", (j - 1) \div 2, FromU64((j - 1) \div 2))]
    /\ pc' = AfterSynthesis
    /\ result' = "Ok"
    /\ UNCHANGED <<circuit, witness, instance, run, regions, assigns,
                   selectors, copies, constants, locals, failures, first,
                   faults>>

RangeLookupQuery_unselected(s, cur_a, next_b) == <<FMul(s, cur_a), next_b>>

\* the lookup of RangeLookupChip::configure: (s*cur_a, s*next_b) in (table_1, table_2)
RangeLookupQuery(s, cur_a, next_b) == <<FMul(s, cur_a), FMul(s, next_b)>>

RangeLookupTuples ==
    {<<TableVal(tables, "table_1", o), TableVal(tables, "table_2", o)>> :
        o \in TableRows(tables)}

RangeLookupRowQuery(row) ==
    RangeLookupQuery(Selected("q_lookup", 1, row),
                     CellVal(assigns, <<1, "advice_a", row>>),
                     CellVal(assigns, <<1, "advice_b", row + 1>>))

RangeLookup3Failures ==
    {Failure("lookup", "advice_a", 1, row) :
        row \in {x \in Rows : RangeLookupRowQuery(x) \notin RangeLookupTuples}}

LookupFailures ==
    CASE circuit = "MyCircuit" -> RangeLookupFailures
      [] circuit = "RangeCheckCircuit" -> RangeCheckFailures
      [] circuit = "RangeLookupCircuit" -> RangeLookup3Failures
      [] OTHER -> {}

(***************************************************************************)
(* Merkle-path circuit.  No source of it is under src/; it follows the     *)
(* design's description: a leaf, sibling values and path bits of equal     *)
(* length; each step is one region that copies the running node, selects   *)
(* left and right arithmetically, and hashes them with the product hash;   *)
(* the final node is bound to the public root slot.  The witness record    *)
(* holds the leaf in a, the siblings in values and the path bits in bits.  *)
(***************************************************************************)
MaxDepth == 2

MerkleSelect_left_only(node, sibling, bit) ==
    <<FAdd(node, FMul(bit, FSub(sibling, node))), sibling>>

\* left = node + bit*(sibling - node), right = sibling + bit*(node - sibling)
MerkleSelect(node, sibling, bit) ==
    <<FAdd(node, FMul(bit, FSub(sibling, node))),
      FAdd(sibling, FMul(bit, FSub(node, sibling)))>>

\* the selection gate: bit*(1 - bit) = 0 and left, right as selected
SwapGate(node, sibling, bit, left, right) ==
    IF /\ FMul(bit, FSub(1, bit)) = 0
       /\ <<left, right>> = MerkleSelect(node, sibling, bit)
    THEN 0 ELSE 1

MerkleSiblings == {2, 3}

\* the root recomputed off-circuit from step i on
RECURSIVE MerkleFold(_, _, _, _)
MerkleFold(node, siblings, bits, i) ==
    IF i > Len(siblings) THEN node
    ELSE MerkleFold(IF bits[i] = 0 THEN HashProduct(node, siblings[i])
                    ELSE HashProduct(siblings[i], node),
                    siblings, bits, i + 1)

MerkleRoot(w) == MerkleFold(w.a, w.values, w.bits, 1)

\* every path up to MaxDepth, and one path of five siblings
MerkleInputs ==
    {w \in {[NoWitness EXCEPT !.a = leaf, !.values = s, !.bits = b] :
                leaf \in InVals,
                s \in SeqsUpTo(MerkleSiblings, MaxDepth),
                b \in SeqsUpTo({0, 1}, MaxDepth)} :
        Len(w.values) = Len(w.bits)}
    \cup {[NoWitness EXCEPT !.a = 7, !.values = <<2, 3, 4, 5, 6>>,
                            !.bits = <<0, 1, 0, 1, 1>>]}

\* public inputs: slot 0 (nullifier hash) is not bound here, slot 1 is the root
MerklePublic(w) == {<<0, MerkleRoot(w)>>, <<0, FAdd(MerkleRoot(w), 1)>>}

\* region "load leaf"
MerkleCircuit_load_leaf ==
    /\ circuit = "MerkleCircuit"
    /\ pc = "load leaf"
    /\ LET r     == Len(regions) + 1
           steps == <<AssignAdvice(<<r, "advice0", 0>>, witness.a)>>
       IN  /\ regions' = Append(regions, "load leaf")
           /\ assigns' = assigns \o LogOf(steps)
           /\ locals' = ("node" :> Number(steps[1].cell, Handle(witness.a)))
    /\ pc' = IF Len(witness.values) = 0 THEN "expose root" ELSE "merkle step"
    /\ UNCHANGED <<circuit, witness, instance, run, selectors, copies,
                   constants, tables, failures, first, result, faults>>

\* the calls of one step: row 0 holds node, sibling, bit; row 1 holds left,
\* right and their hash
MerkleStep(r, node, sibling, bit) ==
    LET sel == MerkleSelect(node.value, sibling, bit)
    IN  <<Enable("s_swap", r, 0),
          CopyAdvice(node.cell, <<r, "advice0", 0>>, node.value),
          AssignAdvice(<<r, "advice1", 0>>, sibling),
          AssignAdvice(<<r, "advice2", 0>>, bit),
          AssignAdvice(<<r, "advice0", 1>>, sel[1]),
          AssignAdvice(<<r, "advice1", 1>>, sel[2]),
          Enable("s_hash", r, 1),
          AssignAdvice(<<r, "advice2", 1>>, FMul(sel[1], sel[2]))>>

\* one region per step; the step's index is the number of steps laid out
MerkleChip_step ==
    /\ circuit = "MerkleCircuit"
    /\ pc = "merkle step"
    /\ LET r     == Len(regions) + 1
           i     == Len(regions)
           steps == MerkleStep(r, locals["node"], witness.values[i],
                               witness.bits[i])
           out   == steps[Len(steps)]
       IN  /\ regions' = Append(regions, "merkle step")
           /\ selectors' = selectors \cup SelectorsOf(steps)
           /\ assigns' = assigns \o LogOf(steps)
           /\ copies' = copies \cup CopiesOf(steps)
           /\ locals' = ("node" :> Number(out.cell, Handle(out.val)))
           /\ pc' = IF i = Len(witness.values) THEN "expose root"
                    ELSE "merkle step"
    /\ UNCHANGED <<circuit, witness, instance, run, constants, tables,
                   failures, first, result, faults>>

\* the final node is bound to the public root slot
MerkleCircuit_expose_root ==
    /\ circuit = "MerkleCircuit"
    /\ pc = "expose root"
    /\ copies' = copies \cup {<<locals["node"].cell, InstanceCell(1)>>}
    /\ pc' = AfterSynthesis
    /\ result' = "Ok"
    /\ UNCHANGED <<circuit, witness, instance, run, regions, assigns,
                   selectors, constants, tables, locals, failures, first,
                   faults>>

(***************************************************************************)
(* MockProver::verify                                                      *)
(***************************************************************************)
\* the value of the gate a selector guards, at the selector's row
GateValue(s) ==
    LET A0(o) == CellVal(assigns, <<s.region, "advice0", s.off + o>>)
        A1(o) == CellVal(assigns, <<s.region, "advice1", s.off + o>>)
        A2(o) == CellVal(assigns, <<s.region, "advice2", s.off + o>>)
    IN  CASE s.sel = "s_mul" /\ circuit = "MyCiruit" ->
                 FieldMulGate(A0(0), A1(0), A0(1))
          [] s.sel = "s_mul" /\ circuit # "MyCiruit" ->
                 MulGate(A0(0), A1(0), A0(1))
          [] s.sel = "s_hash" -> HashGate(A0(0), A1(0), A2(0))
          [] s.sel = "s_swap" -> SwapGate(A0(0), A1(0), A2(0), A0(1), A1(1))
          [] s.sel = "s_add" -> AddGate(A0(0), A1(0), A0(1))
          [] s.sel = "s_cub" -> CubGate(A0(0), A1(0))
          [] OTHER -> 0

GateFailures ==
    {Failure("gate", s.sel, s.region, s.off) : s \in {t \in selectors : GateValue(t) # 0}}

CopyFailures ==
    {Failure("permutation", c[1][2], c[1][1], c[1][3]) :
        c \in {d \in copies : ValOf(d[1]) # ValOf(d[2])}}

ConstantFailures ==
    {Failure("constant", k.cell[2], k.cell[1], k.cell[3]) :
        k \in {d \in constants : CellVal(assigns, d.cell) # d.value}}

AllFailures ==
    GateFailures \cup CopyFailures \cup ConstantFailures \cup LookupFailures

Verify ==
    /\ pc \in {"verify", "audit"}
    /\ failures' = AllFailures
    /\ pc' = IF pc = "verify" THEN "done" ELSE "forged"
    /\ UNCHANGED <<circuit, witness, instance, run, regions, assigns,
                   selectors, copies, constants, tables, locals, first,
                   result, faults>>

(***************************************************************************)
(* A dishonest prover (run 5).  The constraint system is the one the       *)
(* synthesis built: selectors, copy constraints and the constant binding.  *)
(* The prover fills the advice cells one by one, in row order, each with a *)
(* value of its choice: one of the small values, or a value that some      *)
(* constraint on the cell asks for.  A choice that breaks a constraint     *)
(* whose cells are all filled is rejected there, since no later cell can   *)
(* repair it; a grid filled without a rejection is published and verified. *)
(***************************************************************************)
\* the cells a gate queries at the row of its selector
GateCells(s) ==
    LET A0(o) == <<s.region, "advice0", s.off + o>>
        A1(o) == <<s.region, "advice1", s.off + o>>
    IN  CASE s.sel \in {"s_mul", "s_add"} -> {A0(0), A1(0), A0(1)}
          [] s.sel = "s_cub" -> {A0(0), A1(0)}
          [] OTHER -> {}

IsAdvice(cell) == cell[2] # "instance"

GridCells ==
    UNION {GateCells(s) : s \in selectors}
    \cup {c \in {d[1] : d \in copies} \cup {d[2] : d \in copies} : IsAdvice(c)}
    \cup {k.cell : k \in constants}

Unfilled == {c \in GridCells : ~IsAssigned(assigns, c)}

Filled(cells) == \A c \in cells : IsAssigned(assigns, c)

RowOrder(cell) ==
    cell[1] * 1000 + cell[3] * 10 + (IF cell[2] = "advice0" THEN 0 ELSE 1)

NextCell == CHOOSE c \in Unfilled : \A d \in Unfilled : RowOrder(c) <= RowOrder(d)

\* the failures verify would report on the constraints whose cells are filled
PartialFailures ==
    {Failure("gate", s.sel, s.region, s.off) :
        s \in {t \in selectors : Filled(GateCells(t)) /\ GateValue(t) # 0}}
    \cup {Failure("permutation", c[1][2], c[1][1], c[1][3]) :
            c \in {d \in copies : /\ IsAdvice(d[1]) /\ IsAdvice(d[2])
                                  /\ Filled({d[1], d[2]})
                                  /\ ValOf(d[1]) # ValOf(d[2])}}
    \cup {Failure("constant", k.cell[2], k.cell[1], k.cell[3]) :
            k \in {d \in constants : Filled({d.cell})
                                     /\ CellVal(assigns, d.cell) # d.value}}

\* the values the constraints on a cell ask for, given the filled cells
ForcedVals(cell) ==
    {ValOf(d[1]) : d \in {e \in copies : e[2] = cell /\ IsAdvice(e[1])
                                          /\ IsAssigned(assigns, e[1])}}
    \cup {ValOf(d[2]) : d \in {e \in copies : e[1] = cell /\ IsAdvice(e[2])
                                               /\ IsAssigned(assigns, e[2])}}
    \cup {k.value : k \in {d \in constants : d.cell = cell}}
    \cup UNION {LET x == CellVal(assigns, <<s.region, "advice0", s.off>>)
                    y == CellVal(assigns, <<s.region, "advice1", s.off>>)
                IN  CASE s.sel = "s_mul" /\ cell = <<s.region, "advice0", s.off + 1>>
                             -> {FMul(x, y)}
                      [] s.sel = "s_add" /\ cell = <<s.region, "advice0", s.off + 1>>
                             -> {FAdd(x, y)}
                      [] s.sel = "s_cub" /\ cell = <<s.region, "advice1", s.off>>
                             -> {FMul(FMul(x, x), x)}
                      [] OTHER -> {} : s \in selectors}

ForgeVals(cell) == InVals \cup ForcedVals(cell)

\* the prover takes over the constraint system of the first run
Forge ==
    /\ circuit = "SimpleChipCiruit"
    /\ pc = "done"
    /\ run = 1
    /\ run' = 5
    /\ witness' = [witness EXCEPT !.a = Unknown, !.b = Unknown]
    /\ instance' = <<>>
    /\ assigns' = NewAssigns
    /\ locals' = [n \in DOMAIN locals |-> Number(locals[n].cell, Unknown)]
    /\ failures' = {}
    /\ pc' = "forge"
    /\ UNCHANGED <<circuit, regions, selectors, copies, constants, tables,
                   first, result, faults>>

Forge_cell ==
    /\ pc = "forge"
    /\ Unfilled # {}
    /\ \E v \in ForgeVals(NextCell) : assigns' = Assign(assigns, NextCell, v)
    /\ UNCHANGED <<circuit, witness, instance, run, regions, selectors,
                   copies, constants, tables, locals, first, result, faults>>
    /\ failures' = PartialFailures'
    /\ pc' = IF failures' # {} THEN "rejected"
             ELSE IF Unfilled' = {} THEN "publish" ELSE "forge"

\* the prover publishes the out cell it ended with as instance row 0
Forge_publish ==
    /\ pc = "publish"
    /\ instance' = <<CellVal(assigns, locals["out"].cell)>>
    /\ pc' = "audit"
    /\ UNCHANGED <<circuit, witness, run, regions, assigns, selectors, copies,
                   constants, tables, locals, failures, first, result, faults>>

(***************************************************************************)
(* The drivers run the prover twice on the same circuit                    *)
(***************************************************************************)
FirstStep(c) ==
    CASE c = "SimpleChipCiruit" -> "load private inputs"
      [] c = "MyCiruit" -> "load a"
      [] c = "HashCircuit" -> "private inputs"
      [] c = "MyCircuit" -> "lookup col"
      [] c = "RangeCheckCircuit" -> "table"
      [] c = "RangeLookupCircuit" -> "assign region"
      [] c = "MerkleCircuit" -> "load leaf"
      [] OTHER -> "verify"

PublicInputs(c, w) ==
    CASE c = "SimpleChipCiruit" -> SimplePublic(w)
      [] c = "MyCiruit" -> FieldPublic(w)
      [] c = "HashCircuit" -> HashPublic(w)
      [] c = "MerkleCircuit" -> MerklePublic(w)
      [] OTHER -> {<<>>}

\* the second run's public inputs: the same, or public_inputs[0] += 1
SecondPublic ==
    IF instance = <<>> THEN {instance}
    ELSE {instance, [instance EXCEPT ![1] = FAdd(instance[1], 1)]}

Rerun ==
    /\ pc = "done"
    /\ run = 1
    /\ first' = [done |-> TRUE, regions |-> regions, assigns |-> assigns,
                 selectors |-> selectors, copies |-> copies,
                 constants |-> constants, tables |-> tables,
                 instance |-> instance, failures |-> failures]
    /\ run' = 2
    /\ instance' \in SecondPublic
    /\ pc' = FirstStep(circuit)
    /\ regions' = <<>>
    /\ assigns' = NewAssigns
    /\ selectors' = NewSelectors
    /\ copies' = NewCopies
    /\ constants' = {}
    /\ tables' = <<>>
    /\ locals' = <<>>
    /\ failures' = {}
    /\ result' = "none"
    /\ faults' = {}
    /\ UNCHANGED <<circuit, witness>>

\* Self::default() of each circuit, which without_witnesses returns
WithoutWitnesses(c) ==
    CASE c \in {"SimpleChipCiruit", "MyCiruit"} ->
             [NoWitness EXCEPT !.constant = 0, !.a = Unknown, !.b = Unknown]
      [] c = "HashCircuit" -> [NoWitness EXCEPT !.a = Unknown, !.b = Unknown]
      [] c = "MyCircuit" ->
             [NoWitness EXCEPT !.value = [i \in 1..NUM |-> FromU64(i - 1)]]
      [] c = "RangeCheckCircuit" -> [NoWitness EXCEPT !.values = <<>>, !.bits = <<>>]
      [] c = "RangeLookupCircuit" ->
             [NoWitness EXCEPT !.a_values = <<>>, !.b_values = <<>>]

\* key generation: synthesize circuit.without_witnesses() for its shape
Keygen ==
    /\ pc = "done"
    /\ run = 1
    /\ circuit # "MerkleCircuit"
    /\ first' = [done |-> TRUE, regions |-> regions, assigns |-> assigns,
                 selectors |-> selectors, copies |-> copies,
                 constants |-> constants, tables |-> tables,
                 instance |-> <<>>, failures |-> {}]
    /\ run' = 3
    /\ witness' = WithoutWitnesses(circuit)
    /\ instance' = <<>>
    /\ pc' = FirstStep(circuit)
    /\ regions' = <<>>
    /\ assigns' = NewAssigns
    /\ selectors' = NewSelectors
    /\ copies' = NewCopies
    /\ constants' = {}
    /\ tables' = <<>>
    /\ locals' = <<>>
    /\ failures' = {}
    /\ result' = "none"
    /\ faults' = {}
    /\ UNCHANGED circuit

UnknownAt(seq) == {[seq EXCEPT ![i] = Unknown] : i \in 1..Len(seq)}

\* the witnesses of a circuit with one value replaced by Value::unknown()
WithUnknown(c, w) ==
    CASE c \in {"SimpleChipCiruit", "MyCiruit"} ->
             {[w EXCEPT !.a = Unknown], [w EXCEPT !.b = Unknown]}
      [] c = "MyCircuit" -> {[w EXCEPT !.value = v] : v \in UnknownAt(w.value)}
      [] c = "RangeLookupCircuit" ->
             {[w EXCEPT !.a_values = v] : v \in UnknownAt(w.a_values)}
             \cup {[w EXCEPT !.b_values = v] : v \in UnknownAt(w.b_values)}
      [] OTHER -> {}

\* MockProver::run on a witness that holds an unknown value
UnknownRun ==
    /\ pc = "done"
    /\ run = 1
    /\ run' = 4
    /\ witness' \in WithUnknown(circuit, witness)
    /\ pc' = FirstStep(circuit)
    /\ regions' = <<>>
    /\ assigns' = NewAssigns
    /\ selectors' = NewSelectors
    /\ copies' = NewCopies
    /\ constants' = {}
    /\ tables' = <<>>
    /\ locals' = <<>>
    /\ failures' = {}
    /\ result' = "none"
    /\ faults' = {}
    /\ UNCHANGED <<circuit, instance, first>>

Circuits ==
    {"SimpleChipCiruit", "MyCiruit", "HashCircuit", "MyCircuit",
     "RangeCheckCircuit", "RangeLookupCircuit", "MerkleCircuit"}

Init ==
    /\ circuit \in Circuits
    /\ witness \in CASE circuit = "SimpleChipCiruit" -> SimpleInputs
                     [] circuit = "MyCiruit" -> FieldInputs
                     [] circuit = "HashCircuit" -> HashInputs
                     [] circuit = "MyCircuit" -> RangeInputs
                     [] circuit = "RangeCheckCircuit" -> RangeCheckInputs
                     [] circuit = "RangeLookupCircuit" -> RangeLookupInputs
                     [] circuit = "MerkleCircuit" -> MerkleInputs
                     [] OTHER -> {NoWitness}
    /\ instance \in PublicInputs(circuit, witness)
    /\ run = 1
    /\ pc = FirstStep(circuit)
    /\ regions = <<>>
    /\ assigns = <<>>
    /\ selectors = {}
    /\ copies = {}
    /\ constants = {}
    /\ tables = <<>>
    /\ locals = <<>>
    /\ failures = {}
    /\ first = NoRun
    /\ result = "none"
    /\ faults = {}

Next ==
    \/ SimpleChip_load_private_inputs
    \/ SimpleChip_load_witness
    \/ SimpleChip_expose_public
    \/ FieldChip_load_private
    \/ FieldChip_load_constant
    \/ FieldChip_mul
    \/ FieldChip_expose_public
    \/ HashCircuit_private_inputs
    \/ HashChip_hash
    \/ HashCircuit_constrain_instance
    \/ LookupTable_load
    \/ RangeConfig_assign
    \/ RangeCheckTable_load
    \/ RangeCheckConfig_assign
    \/ RangeLookupChip_assign_region
    \/ RangeLookupChip_assign_table
    \/ MerkleCircuit_load_leaf
    \/ MerkleChip_step
    \/ MerkleCircuit_expose_root
    \/ Verify
    \/ Rerun
    \/ Keygen
    \/ UnknownRun
    \/ Forge
    \/ Forge_cell
    \/ Forge_publish

Spec == Init /\ [][Next]_vars

(***************************************************************************)
(* Properties                                                              *)
(***************************************************************************)
Done(c) == circuit = c /\ pc = "done"

Out(name) == CellVal(assigns, locals[name].cell)

\* C1: with instance row 0 = ((c*a^2*b^2) + c)^3, SimpleChipCiruit's check
\* succeeds: no gate, copy constraint or constant binding fails, and the
\* exposed out cell holds that value (405224 for a = 2, b = 3, c = 2).
C1_SimpleHonestVerifies ==
    Done("SimpleChipCiruit") =>
        LET out == SimpleOut(witness.a, witness.b, witness.constant)
        IN  /\ Out("out") = out
            /\ GateFailures = {}
            /\ instance = <<out>> => failures = {}
            /\ (witness.a = 2 /\ witness.b = 3 /\ witness.constant = 2)
                  => Out("out") = 405224

C1_Witness ==
    /\ Done("SimpleChipCiruit")
    /\ witness.a = 2 /\ witness.b = 3 /\ witness.constant = 2
    /\ instance = <<405224>>
    /\ Cardinality(selectors) = 5
    /\ failures = {}

\* C2: with instance row 0 different from ((c*a^2*b^2) + c)^3,
\* SimpleChipCiruit's check fails.
C2_SimpleTamperedFails ==
    (Done("SimpleChipCiruit")
        /\ instance[1] # SimpleOut(witness.a, witness.b, witness.constant))
    => failures # {}

C2_Witness ==
    /\ Done("SimpleChipCiruit")
    /\ instance[1] = FAdd(SimpleOut(witness.a, witness.b, witness.constant), 1)
    /\ failures # {}

\* C3: HashCircuit's check succeeds exactly when instance row 0 is the field
\* product a*b; the hash result cell holds a*b and is bound to instance row 0.
C3_HashIffProduct ==
    Done("HashCircuit") =>
        /\ Out("hash_result_cell") = HashProduct(witness.a, witness.b)
        /\ <<locals["hash_result_cell"].cell, InstanceCell(0)>> \in copies
        /\ (failures = {}) <=> (instance[1] = HashProduct(witness.a, witness.b))

C3_Witness ==
    /\ Done("HashCircuit")
    /\ witness.a = 11 /\ witness.b = 6
    /\ \/ instance = <<66>> /\ failures = {} /\ run = 1
       \/ instance = <<67>> /\ failures # {} /\ run = 2

\* C4 (as claimed): MyCiruit verifies with instance row 0 = a*b + k and fails
\* with that value plus one.
C4_FieldVerifiesSumClaim ==
    (Done("MyCiruit") /\ witness.a = 3 /\ witness.b = 5 /\ witness.constant = 7)
    => /\ instance = <<22>> => failures = {}
       /\ instance = <<23>> => failures # {}

\* C5: the single-table range circuit's check succeeds exactly when every
\* one of the NUM witnessed values lies in [0, RANGE).
C5_RangeIffAllInRange ==
    Done("MyCircuit") =>
        /\ \A i \in 0..(NUM - 1) :
              Selected("q_lookup", 1, i) = 1 /\ IsAssigned(assigns, <<1, "value", i>>)
        /\ (failures = {}) <=> (\A i \in 1..NUM : witness.value[i] < RANGE)

C5_Witness ==
    /\ Done("MyCircuit")
    /\ witness.value = <<0, 18, 2>>
    /\ failures = {Failure("lookup", "value", 1, 1)}
    /\ first.done /\ first.failures = failures

\* C6: with NUM_BITS = 4, the witness holding every pair (v, b), b in 1..4
\* and v in [2^(b-1), 2^b), satisfies the tagged range-check circuit, and
\* each of its pairs is a tuple of the (n_bits, value) table.
C6_TaggedHonestSatisfies ==
    (Done("RangeCheckCircuit")
        /\ witness.values = TestValues /\ witness.bits = TestBits)
    => /\ failures = {}
       /\ \A i \in 1..Len(witness.values) :
             /\ witness.bits[i] \in 1..NUM_BITS
             /\ witness.values[i] \in (2^(witness.bits[i] - 1)) .. (2^witness.bits[i] - 1)
             /\ RangeCheckQuery(1, witness.values[i], witness.bits[i]) \in RangeCheckTuples

C6_Witness ==
    /\ Done("RangeCheckCircuit")
    /\ witness.values = TestValues /\ witness.bits = TestBits
    /\ Len(witness.values) = 15
    /\ Selected("q_lookup", 1, NUM_BITS - 1) = 1
    /\ failures = {}

\* C7 (as claimed): a supplied pair whose value is outside [0, 15], at any
\* position of the list and with any tag, makes the tagged range check fail.
C7_AnyOutOfRangeFailsClaim ==
    (Done("RangeCheckCircuit")
        /\ \E i \in 1..Len(witness.values) : witness.values[i] > 2^NUM_BITS - 1)
    => failures # {}

\* C8: on every row with q_lookup disabled the tagged lookup queries
\* (tag 1, value 0) whatever the value and bit cells hold, (1, 0) is a table
\* tuple, and no disabled row fails the lookup.
C8_DisabledRowSentinel ==
    Done("RangeCheckCircuit") =>
        /\ <<1, 0>> \in RangeCheckTuples
        /\ \A x \in TamperVals, y \in TamperTags : RangeCheckQuery(0, x, y) = <<1, 0>>
        /\ \A row \in Rows :
              Selected("q_lookup", 1, row) = 0 =>
                 /\ RangeCheckRowQuery(row) = <<1, 0>>
                 /\ Failure("lookup", "value", 1, row) \notin failures

C8_Witness ==
    /\ Done("RangeCheckCircuit")
    /\ Selected("q_lookup", 1, NUM_BITS) = 0
    /\ RangeCheckRowQuery(NUM_BITS) = <<1, 0>>
    /\ Len(tables) = 2 * 2^NUM_BITS

\* column B's cell at a row, 0 where nothing was assigned
BAt(row) == IF row < Len(witness.b_values) THEN witness.b_values[row + 1] ELSE 0

\* C9 (as claimed): the dual-table check passes only if on every row column
\* A's value equals column B's value at the next row, and every value of
\* either column is below the table's range.
C9_BothColumnsRangedClaim ==
    (Done("RangeLookupCircuit") /\ failures = {})
    => /\ \A r \in 0..(Len(witness.a_values) - 1) :
             witness.a_values[r + 1] = BAt(r + 1)
       /\ \A i \in 1..Len(witness.a_values) : witness.a_values[i] < 10
       /\ \A i \in 1..Len(witness.b_values) : witness.b_values[i] < 10

\* C9 (amended): the check passes exactly when, on every row r with
\* q_lookup enabled (r < len(a)), A's value at r is below 10 and equals B's
\* value at r+1; B's row 0 and rows beyond len(a) are not constrained.
C9_EnabledRowsPaired ==
    Done("RangeLookupCircuit") =>
        ((failures = {}) <=>
            \A r \in 0..(Len(witness.a_values) - 1) :
                /\ witness.a_values[r + 1] < 10
                /\ witness.a_values[r + 1] = BAt(r + 1))

C9_Witness ==
    /\ Done("RangeLookupCircuit")
    /\ \/ /\ witness.a_values = <<0, 1, 2, 3, 4>>
          /\ witness.b_values = <<0, 0, 1, 2, 3, 4, 5, 6, 7, 8, 9>>
          /\ failures = {}
          /\ run = 1
       \/ /\ witness.a_values = <<1>>
          /\ witness.b_values = <<10, 1, 10>>
          /\ failures = {}
          /\ run = 2

CellsOf(log) == [i \in 1..Len(log) |-> log[i].cell]

\* the cells whose value the chip computes from its operands: the products,
\* the sum and the cube of "load witness", the product of "mul"
Computed(cell) ==
    /\ cell[1] \in 1..Len(regions)
    /\ \/ /\ regions[cell[1]] = "load witness"
          /\ \/ cell[2] = "advice0" /\ cell[3] \in 1..4
             \/ cell[2] = "advice1" /\ cell[3] = 4
       \/ regions[cell[1]] = "mul" /\ cell[2] = "advice0" /\ cell[3] = 1

C12_NoCellAssignedTwice ==
    /\ \A i, j \in 1..Len(assigns) : i # j => assigns[i].cell # assigns[j].cell
    /\ \A i, j \in 1..Len(tables) :
           i # j => <<tables[i].col, tables[i].off>> # <<tables[j].col, tables[j].off>>

C12_Witness ==
    /\ circuit = "SimpleChipCiruit" /\ pc = "done" /\ run = 1
    /\ Len(assigns) = 13
    /\ Cardinality({assigns[i].cell : i \in 1..Len(assigns)}) = 13
    /\ Cardinality(copies) = 6
    /\ Cardinality(constants) = 1

\* C13: a failure of the region assignment inside RangeLookupChip::assign is
\* returned by assign, and so by synthesize, to the caller: once the region
\* has failed, synthesize does not return Ok(()).
C13_RegionFailureReturnedClaim ==
    (circuit = "RangeLookupCircuit" /\ pc = "returned"
        /\ \E f \in faults : f.call = "assign_region")
    => result = "Err"

\* the private witness values a circuit struct holds
PrivateValues(c, w) ==
    CASE c \in {"SimpleChipCiruit", "MyCiruit", "HashCircuit"} -> {w.a, w.b}
      [] c = "MyCircuit" -> {w.value[i] : i \in 1..Len(w.value)}
      [] c = "RangeCheckCircuit" -> {w.values[i] : i \in 1..Len(w.values)}
      [] c = "RangeLookupCircuit" ->
             {w.a_values[i] : i \in 1..Len(w.a_values)}
             \cup {w.b_values[i] : i \in 1..Len(w.b_values)}

\* C15: for every circuit, the circuit that without_witnesses returns holds
\* no known witness value: each of its private witness values is unknown.
C15_WithoutWitnessesUnknownClaim ==
    run = 3 => PrivateValues(circuit, witness) \subseteq {Unknown}

\* C16: in SimpleChip's two-column layout the gates are mutually exclusive
\* per row: every row of the "load witness" region has at most one of s_mul,
\* s_add, s_cub enabled (one each on rows 0..4 once the region is complete),
\* and no selector is enabled on a row of "load private inputs".
C16_SelectorsExclusive ==
    circuit = "SimpleChipCiruit" =>
        /\ \A s, t \in selectors :
               (s.region = t.region /\ s.off = t.off) => s.sel = t.sel
        /\ \A s \in selectors :
               /\ s.sel \in {"s_mul", "s_add", "s_cub"}
               /\ regions[s.region] = "load witness"
        /\ pc \in {"expose_public", "verify", "done"} =>
               {s.off : s \in selectors} = 0..4

C16_Witness ==
    /\ circuit = "SimpleChipCiruit" /\ pc = "expose_public" /\ run = 1
    /\ regions = <<"load private inputs", "load witness">>
    /\ Cardinality(selectors) = 5
    /\ [sel |-> "s_add", region |-> 2, off |-> 3] \in selectors
    /\ [sel |-> "s_cub", region |-> 2, off |-> 4] \in selectors

C18_AnyAssignFailureReturnedClaim ==
    (circuit = "MyCircuit" /\ \E f \in faults : f.call = "assign_advice")
    => result = "Err"

\* C19: when the "load private inputs" region of SimpleChip::assign fails,
\* assign returns that failure to synthesize as an Err value, as it returns
\* a failure of "load witness", and no cell of "load witness" is assigned.
C19_FirstRegionFailureReturnedClaim ==
    (circuit = "SimpleChipCiruit"
        /\ \E f \in faults : f.call = "assign_region" /\ f.name = "load private inputs")
    => /\ result = "Err"
       /\ \A i \in 1..Len(assigns) : regions[assigns[i].cell[1]] # "load witness"

\* C20: SimpleChip's constraints are sound: every filling of the advice
\* cells by a dishonest prover that satisfies all enabled gates, all copy
\* constraints and the constant binding has its out cell equal to
\* ((c*a^2*b^2) + c)^3 for the values a, b of the loaded private-input cells
\* and the constant c; a filling with another intermediate is rejected.
C20_ConstraintsSound ==
    (run = 5 /\ pc = "forged" /\ failures = {})
    => Out("out") = SimpleOut(Out("a"), Out("b"), witness.constant)

C20_Witness ==
    /\ run = 5 /\ pc = "forged" /\ failures = {}
    /\ Out("a") = 2 /\ Out("b") = 3 /\ witness.constant = 2
    /\ Len(assigns) = 13
    /\ Out("out") = 405224

\* C14: for a leaf, siblings and path bits of equal length, the in-circuit
\* root cell equals the off-circuit fold that starts at the leaf and at step
\* i takes hash(node, sibling_i) when bit_i = 0 and hash(sibling_i, node)
\* when bit_i = 1; the root cell is bound to the public root slot, so the
\* check passes exactly when that slot holds the fold.
C14_MerkleRootIsFold ==
    Done("MerkleCircuit") =>
        /\ Len(regions) = Len(witness.values) + 1
        /\ Out("node") = MerkleRoot(witness)
        /\ <<locals["node"].cell, InstanceCell(1)>> \in copies
        /\ GateFailures = {}
        /\ (failures = {}) <=> (instance[2] = MerkleRoot(witness))

C14_Witness ==
    /\ Done("MerkleCircuit")
    /\ witness.a = 7
    /\ witness.values = <<2, 3, 4, 5, 6>>
    /\ witness.bits = <<0, 1, 0, 1, 1>>
    /\ Out("node") = 5040
    /\ instance = <<0, 5040>>
    /\ failures = {}

\* C21: for SimpleChipCiruit and MyCiruit the synthesis of the circuit that
\* without_witnesses returns produces the same fixed part of the grid as the
\* synthesis of the witnessed circuit: the same selectors on the same rows,
\* the same cells and copy constraints, and the same fixed constant value.
C21_WitnessFreeSameFixedPartClaim ==
    (run = 3 /\ pc = "returned" /\ circuit \in {"SimpleChipCiruit", "MyCiruit"})
    => /\ regions = first.regions
       /\ selectors = first.selectors
       /\ CellsOf(assigns) = CellsOf(first.assigns)
       /\ copies = first.copies
       /\ constants = first.constants

====
